---------------------------- MODULE Spec2Model ----------------------------
(***************************************************************************)
(* A model of implicit/bpr.pyx: the BayesianPersonalizedRanking model      *)
(* object, its fit() method and the parallel SGD kernel bpr_update().      *)
(*                                                                         *)
(* Numbers.  Factor values are single-precision floats in the source.     *)
(* Here a value v stands for the real number v / Scale: every arithmetic   *)
(* operation of the kernel is carried out on that grid and rounded to the  *)
(* nearest grid point, as each float operation rounds to the nearest       *)
(* float (z apart: see Sigmoid).                                           *)
(*                                                                         *)
(* Concurrency.  The threads of the parallel region share the two factor   *)
(* matrices without synchronisation.  Every load of a factor entry and     *)
(* every store to one is a step of its own, so that a thread can read a   *)
(* value another thread is about to overwrite, and can overwrite a value   *)
(* another thread stored since it loaded it.                               *)
(***************************************************************************)
EXTENDS Integers, Sequences, FiniteSets, TLC

VARIABLES
    self,           \* the constructor's arguments, as stored by __init__
    has_cuda,       \* implicit.cuda.HAS_CUDA
    np_random,      \* the state of numpy's global generator np.random
    item_factors,   \* self.item_factors: None or a matrix items x (factors+1)
    user_factors,   \* self.user_factors: None or a matrix users x (factors+1)
    pc,             \* where fit() is
    error,          \* the exception fit() raised, "" when none
    calls,          \* fit() calls started on this object
    Ciu,            \* the interaction matrix of the current call
    num_threads,    \* fit's local cdef int num_threads
    rng,            \* vector[mt19937]: one generator state per thread
    dist,           \* vector[uniform_int_distribution]: one [a, b] per thread
    epoch,          \* fit's loop variable
    correct,        \* the count bpr_update returned last
    team,           \* threads of the current parallel region
    next_i,         \* first loop position prange has not handed out yet
    thr,            \* the threads' private variables
    dev,            \* the device: its copies of the matrices, epochs and transfers
    hist,           \* history of the current call (what was done, never read by the code)
    trial           \* the repeated run of one bpr_update call (SpecRepeat alone)

vars == <<self, has_cuda, np_random, item_factors, user_factors, pc, error, calls, Ciu,
          num_threads, rng, dist, epoch, correct, team, next_i, thr, dev, hist,
          trial>>

-----------------------------------------------------------------------------
(* Bounds of the model. *)

\* Half of the grid's unit: 1.0 is 2 * HalfScale grid points.
HalfScale == 2
\* The largest self.iterations a constructor call is given.
MaxIterations == 2
\* The largest self.factors a constructor call is given.
MaxFactors == 1
\* The largest explicit self.num_threads a constructor call is given.
MaxThreads == 1
\* fit() calls on one object.
MaxCalls == 2
\* States numpy's global generator starts in: 0 .. MaxSeed.
MaxSeed == 1

Scale == 2 * HalfScale

\* multiprocessing.cpu_count() of the machine.
CpuCount == MaxThreads + 1

None == <<>>

-----------------------------------------------------------------------------
(* Fixed-point arithmetic on the grid. *)

\* n / d rounded to the nearest integer, halves away from zero (d > 0).
RoundDiv(n, d) == IF n >= 0 THEN (2 * n + d) \div (2 * d)
                  ELSE 0 - ((2 * (0 - n) + d) \div (2 * d))

\* The product of two grid values, rounded to the grid.
Mul(a, b) == RoundDiv(a * b, Scale)

Min(a, b) == IF a < b THEN a ELSE b
Max(a, b) == IF a > b THEN a ELSE b

\* n / d rounded up (n >= 0, d > 0).
CeilDiv(n, d) == (n + d - 1) \div d

\* z = 1.0 / (1.0 + exp(score)), with exp(x) taken as (2 + x) / (2 - x), which
\* gives z = 1/2 - score / 4, kept within [0, 1].  It is rounded to the grid away
\* from 1/2: the float z of a score of the grid is 0.5 for score 0 alone, and so
\* is the grid's.
Sigmoid(score) ==
    IF score > 0 THEN Max(0, HalfScale - CeilDiv(score, 4))
    ELSE Min(Scale, HalfScale + CeilDiv(0 - score, 4))

\* The test of line 202 with <= for <.
NotAboveHalf(z) == 2 * z <= Scale

\* z < .5
BelowHalf(z) == 2 * z < Scale

-----------------------------------------------------------------------------
(* numpy's global generator.  np.random is one generator: every call draws *)
(* from its state and advances it.                                         *)

\* The state after one call.
NpAdvance(s) == (s + 1) % (2 * (MaxSeed + 1))

\* np.random.rand(rows, cols).astype(np.float32): entries in [0, 1).
NpRand(s, rows, cols) ==
    [r \in 0 .. rows - 1 |-> [c \in 0 .. cols - 1 |-> (s + 2 * r + c + 1) % Scale]]

\* np.random.randint(2**31)
NpRandint(s) == s % (MaxSeed + 1)

-----------------------------------------------------------------------------
(* The interaction matrices a fit() call is given, as COO triplets:        *)
(* shape = (items, users), row[p] the item and col[p] the user of the p-th *)
(* stored entry.  Sequences are indexed from 1, positions from 0.          *)

Dataset(items, users, row, col) ==
    [items |-> items, users |-> users, row |-> row, col |-> col]

Datasets ==
    { Dataset(2, 2, <<0, 1>>, <<0, 1>>),     \* every item and user is observed
      Dataset(3, 2, <<0, 2>>, <<1, 1>>),     \* item 1 and user 0 are not observed
      Dataset(1, 1, <<0>>, <<0>>),           \* one interaction
      Dataset(3, 2, <<0, 1>>, <<0, 1>>),     \* the last item is not observed
      Dataset(2, 3, <<0, 1>>, <<0, 1>>),     \* the last user is not observed
      Dataset(2, 2, <<>>, <<>>) }            \* no interaction at all

\* len(Ciu.row)
Samples(C) == Len(C.row)

\* The entry of an index array at position p (0-based).
At(seq, p) == seq[p + 1]

SeqMax(seq) == IF Len(seq) = 0 THEN -1
               ELSE CHOOSE m \in {seq[k] : k \in 1 .. Len(seq)} :
                        \A k \in 1 .. Len(seq) : seq[k] <= m

\* np.bincount(ids): counts for 0 .. max(ids), and no entry past max(ids).
Bincount(ids) ==
    [v \in 0 .. SeqMax(ids) |-> Cardinality({k \in 1 .. Len(ids) : ids[k] = v})]

Rows(M) == Cardinality(DOMAIN M)

\* M[mask] = np.zeros(cols): numpy refuses a boolean mask whose length is not
\* the number of rows of M (IndexError).
MaskFits(M, counts) == Rows(M) = Cardinality(DOMAIN counts)

ZeroMasked(M, counts) ==
    [r \in DOMAIN M |-> IF counts[r] = 0 THEN [c \in DOMAIN M[r] |-> 0] ELSE M[r]]

\* M[:, col] = value
SetColumn(M, col, value) ==
    [r \in DOMAIN M |-> [M[r] EXCEPT ![col] = value]]

-----------------------------------------------------------------------------
(* The generators of bpr_update: mt19937 and uniform_int_distribution.     *)

\* mt19937(seed): the state a generator is constructed in.
GenSeed(seed) == (13 * seed) % 16

\* The state after one draw.
GenNext(g) == (5 * g + 3) % 16

\* What uniform_int_distribution(a, b) makes of the generator's output.
DistValue(d, g) == d.a + ((g \div 3) % (d.b - d.a + 1))

\* The entries of a vector are indexed from 0.
Size(v) == Cardinality(DOMAIN v)

-----------------------------------------------------------------------------
(* The arithmetic of one sample step (bpr_update, lines 196-214).          *)

\* score + user[j] * (liked[j] - disliked[j])
ScoreAdd(score, u, l, d) == score + Mul(u, l - d)

\* user[j] + learning_rate * (z * (liked[j] - disliked[j]) - reg * user[j])
NewUser(u, l, d, z, lr, reg) == u + Mul(lr, Mul(z, l - d) - Mul(reg, u))

\* liked[j] + learning_rate * (z * temp - reg * liked[j])
NewLiked(l, temp, z, lr, reg) == l + Mul(lr, Mul(z, temp) - Mul(reg, l))

\* disliked[j] + learning_rate * (-z * temp - reg * disliked[j])
NewDisliked(d, temp, z, lr, reg) == d + Mul(lr, Mul(0 - z, temp) - Mul(reg, d))

\* liked[factors] + learning_rate * (z - reg * liked[factors])
NewLikedBias(l, z, lr, reg) == l + Mul(lr, z - Mul(reg, l))

\* disliked[factors] + learning_rate * (-z - reg * disliked[factors])
NewDislikedBias(d, z, lr, reg) == d + Mul(lr, (0 - z) - Mul(reg, d))

-----------------------------------------------------------------------------
(* Memory.  bpr_update is compiled with boundscheck(False): a row index    *)
(* past the end of a matrix is not caught.  Such an access is undefined:   *)
(* the process may be killed (Segfault below), or the access lands outside *)
(* the matrix, where a load gives some value and a store is not seen.      *)

\* Values a load outside a matrix may give.
Wild == {0, Scale}

InRows(M, row) == row \in DOMAIN M

Load(M, row, c, wild) == IF InRows(M, row) THEN M[row][c] ELSE wild

Store(M, row, c, value) ==
    IF InRows(M, row) THEN [M EXCEPT ![row][c] = value] ELSE M

-----------------------------------------------------------------------------
(* The state after BayesianPersonalizedRanking(...) has returned.          *)

\* The constructor stores its arguments unchecked.  learning_rate is 0.5.
Configurations ==
    [factors : 0 .. MaxFactors,
     learning_rate : {HalfScale},
     regularization : {0, 1},
     iterations : 0 .. MaxIterations,
     use_gpu : BOOLEAN,
     num_threads : -1 .. MaxThreads]

NoMatrix == Dataset(0, 0, <<>>, <<>>)

NoDevice == [X |-> None, Y |-> None, uploads |-> 0, epochs |-> 0,
             downloads |-> 0, seeds |-> <<>>]

\* What a fit() call has done so far:
\*   updates  calls of bpr_update started,    joined  calls of it that returned,
\*   steps    sample steps of the current bpr_update call (draws made),
\*   ranked   those of them whose z was < .5,
\*   ran      how often each loop position was run in the current call,
\*   owner    the thread prange gave each loop position to (-1: none yet),
\*   start    the matrices as the current bpr_update call started,
\*   drew     the two positions drawn at each loop position,
\*   before   the matrices as the last sample step of a team of one started.
NoHistory == [updates |-> 0, joined |-> 0, steps |-> 0, ranked |-> 0,
              ran |-> <<>>, owner |-> <<>>, start |-> <<>>, drew |-> <<>>,
              before |-> <<>>]

\* No bpr_update call is being repeated.
NoTrial == [run |-> 0, start |-> <<>>, first |-> <<>>]

\* HAS_CUDA is read by _fit_gpu alone: without use_gpu one value stands for both.
Init ==
    /\ self \in Configurations
    /\ has_cuda \in (IF self.use_gpu THEN BOOLEAN ELSE {FALSE})
    /\ np_random \in 0 .. MaxSeed
    /\ item_factors = None
    /\ user_factors = None
    /\ pc = "ready"
    /\ error = ""
    /\ calls = 0
    /\ Ciu = NoMatrix
    /\ num_threads = 0
    /\ rng = <<>>
    /\ dist = <<>>
    /\ epoch = 0
    /\ correct = 0
    /\ team = 0
    /\ next_i = 0
    /\ thr = <<>>
    /\ dev = NoDevice
    /\ hist = NoHistory
    /\ trial = NoTrial

kernel_vars == <<rng, team, next_i, thr>>
call_vars == <<calls, Ciu, num_threads, dist, epoch, correct>>
object_vars == <<self, has_cuda, trial>>

-----------------------------------------------------------------------------
(* fit(), lines 80-146.                                                    *)

\* fit(item_users) is called (lines 93-104).  The caller does not call again an
\* object whose fit raised (a failed call is not retried), and here neither one
\* that trained with more than one thread.
FitCall(C) ==
    /\ pc \in {"ready", "returned"}
    /\ calls < MaxCalls
    /\ Size(rng) <= 1
    /\ calls' = calls + 1
    /\ Ciu' = C
    /\ pc' = "init_items"
    /\ hist' = NoHistory
    /\ dev' = NoDevice
    /\ UNCHANGED <<object_vars, np_random, item_factors, user_factors, error,
                   num_threads, dist, epoch, correct, kernel_vars>>

\* Lines 109-113.
InitItemFactors ==
    /\ pc = "init_items"
    /\ IF item_factors = None
       THEN LET M == NpRand(np_random, Ciu.items, self.factors + 1)
                counts == Bincount(Ciu.row)
            IN  /\ np_random' = NpAdvance(np_random)
                /\ IF MaskFits(M, counts)
                   THEN /\ item_factors' = ZeroMasked(M, counts)
                        /\ pc' = "init_users"
                        /\ error' = error
                   ELSE /\ item_factors' = M
                        /\ pc' = "raised"
                        /\ error' = "IndexError"
       ELSE /\ pc' = "init_users"
            /\ UNCHANGED <<np_random, item_factors, error>>
    /\ UNCHANGED <<object_vars, user_factors, call_vars, kernel_vars, dev, hist>>

\* Lines 115-121.
InitUserFactors ==
    /\ pc = "init_users"
    /\ IF user_factors = None
       THEN LET M == NpRand(np_random, Ciu.users, self.factors + 1)
                counts == Bincount(Ciu.col)
            IN  /\ np_random' = NpAdvance(np_random)
                /\ IF MaskFits(M, counts)
                   THEN /\ user_factors' =
                               SetColumn(ZeroMasked(M, counts), self.factors, Scale)
                        /\ pc' = "dispatch"
                        /\ error' = error
                   ELSE /\ user_factors' = M
                        /\ pc' = "raised"
                        /\ error' = "IndexError"
       ELSE /\ pc' = "dispatch"
            /\ UNCHANGED <<np_random, user_factors, error>>
    /\ UNCHANGED <<object_vars, item_factors, call_vars, kernel_vars, dev, hist>>

\* ChooseThreads without line 130-131's substitution: the count is used as given.
ChooseThreadsAsGiven ==
    /\ pc = "dispatch"
    /\ ~self.use_gpu
    /\ num_threads' = self.num_threads
    /\ pc' = "rng_init"
    /\ UNCHANGED <<object_vars, np_random, item_factors, user_factors, error, calls,
                   Ciu, dist, epoch, correct, kernel_vars, dev, hist>>

\* Lines 123-131 on the CPU path: num_threads = 0 asks for one thread per core.
ChooseThreads ==
    /\ pc = "dispatch"
    /\ ~self.use_gpu
    /\ num_threads' = IF self.num_threads = 0 THEN CpuCount ELSE self.num_threads
    /\ pc' = "rng_init"
    /\ UNCHANGED <<object_vars, np_random, item_factors, user_factors, error, calls,
                   Ciu, dist, epoch, correct, kernel_vars, dev, hist>>

\* np.random.randint(2**31), called k times from state s.
NpSeeds(s, k) == [i \in 0 .. k - 1 |-> NpRandint((s + i) % (2 * (MaxSeed + 1)))]

NpAdvanceBy(s, k) == IF k <= 0 THEN s ELSE (s + k) % (2 * (MaxSeed + 1))

\* Lines 134-138: one generator and one sampler per thread; range(num_threads) is
\* empty for a negative num_threads.
InitRng ==
    /\ pc = "rng_init"
    /\ rng' = [i \in 0 .. num_threads - 1 |-> GenSeed(NpSeeds(np_random, num_threads)[i])]
    /\ dist' = [i \in 0 .. num_threads - 1 |-> [a |-> 0, b |-> Samples(Ciu) - 1]]
    /\ np_random' = NpAdvanceBy(np_random, num_threads)
    /\ epoch' = 0
    /\ pc' = "epoch_head"
    /\ UNCHANGED <<object_vars, item_factors, user_factors, error, calls, Ciu,
                   num_threads, correct, team, next_i, thr, dev, hist>>

-----------------------------------------------------------------------------
(* bpr_update(), lines 169-216.                                            *)

\* A thread's private variables as the parallel region starts.  at is where the
\* thread is; a and b hold loaded values; correct is its copy of the reduction
\* variable; born is the epoch whose parallel region started the thread.
NewThread(e) ==
    [at |-> "next", i |-> -1, last |-> 0, liked_index |-> 0, disliked_index |-> 0,
     j |-> 0, score |-> 0, z |-> 0, temp |-> 0, a |-> 0, b |-> 0,
     correct |-> 0, born |-> e]

\* parallel(num_threads=num_threads): a team of num_threads threads.  A value that
\* is not positive is outside what OpenMP defines: the team is whatever the runtime
\* makes of it.
TeamSizes(n) == IF n > 0 THEN {n} ELSE 1 .. CpuCount

\* Line 140: the loop test; line 142 and lines 173-185: the call, and the team starts.
EpochHead ==
    /\ pc = "epoch_head"
    /\ epoch < self.iterations
    /\ \E size \in TeamSizes(num_threads) :
          /\ team' = size
          /\ thr' = [t \in 0 .. size - 1 |-> NewThread(epoch)]
    /\ next_i' = 0
    /\ pc' = "parallel"
    /\ hist' = [hist EXCEPT !.updates = @ + 1, !.steps = 0, !.ranked = 0,
                            !.ran = [p \in 0 .. Samples(Ciu) - 1 |-> 0],
                            !.owner = [p \in 0 .. Samples(Ciu) - 1 |-> -1],
                            !.start = [X |-> user_factors, Y |-> item_factors],
                            !.drew = [p \in 0 .. Samples(Ciu) - 1 |-> <<>>]]
    /\ UNCHANGED <<object_vars, np_random, item_factors, user_factors, error,
                   call_vars, rng, dev>>

\* Line 140, the loop is over: fit returns.
FitReturn ==
    /\ pc = "epoch_head"
    /\ epoch >= self.iterations
    /\ pc' = "returned"
    /\ UNCHANGED <<object_vars, np_random, item_factors, user_factors, error,
                   call_vars, kernel_vars, dev, hist>>

\* The process is alive: no thread has been killed by a wild access.
Alive == pc # "crashed"

\* schedule='guided': the next chunk is the positions left divided by the team's
\* size, rounded up, and at least one.
GuidedChunk(left, size) == Max(1, (left + size - 1) \div size)

\* Line 186: prange gives the thread its next loop position, from its own chunk or
\* from a new one; with none left the thread leaves the loop.
NextPosition(t) ==
    /\ Alive
    /\ t \in DOMAIN thr
    /\ thr[t].at = "next"
    /\ LET th == thr[t]
           samples == Samples(Ciu)
       IN  IF th.i + 1 < th.last
           THEN /\ thr' = [thr EXCEPT ![t] = [th EXCEPT !.i = th.i + 1, !.at = "draw"]]
                /\ UNCHANGED <<next_i, hist>>
           ELSE IF next_i < samples
           THEN LET size == GuidedChunk(samples - next_i, team)
                IN  /\ thr' = [thr EXCEPT ![t] = [th EXCEPT !.i = next_i,
                                                            !.last = next_i + size,
                                                            !.at = "draw"]]
                    /\ next_i' = next_i + size
                    /\ hist' = [hist EXCEPT !.owner =
                                   [p \in DOMAIN @ |->
                                       IF p >= next_i /\ p < next_i + size THEN t ELSE @[p]]]
           ELSE /\ thr' = [thr EXCEPT ![t] = [th EXCEPT !.at = "done"]]
                /\ UNCHANGED <<next_i, hist>>
    /\ UNCHANGED <<object_vars, np_random, item_factors, user_factors, pc, error,
                   call_vars, rng, team, dev>>

\* UserRow with the user taken at the disliked position.
UserRowOfDisliked(th) == At(Ciu.col, th.disliked_index)

\* The rows the thread's three pointers point to (line 194).
UserRow(th) == At(Ciu.col, th.liked_index)
LikedRow(th) == At(Ciu.row, th.liked_index)
DislikedRow(th) == At(Ciu.row, th.disliked_index)

\* The thread's pointers all point into the matrices.
Pointed(th) ==
    /\ InRows(user_factors, UserRow(th))
    /\ InRows(item_factors, LikedRow(th))
    /\ InRows(item_factors, DislikedRow(th))

\* X.shape[1] - 1 (line 181)
Factors == Cardinality(DOMAIN user_factors[0]) - 1

\* What the thread has when line 194 is done.
Drawn(th, liked_index, disliked_index) ==
    [th EXCEPT !.liked_index = liked_index, !.disliked_index = disliked_index,
               !.j = 0, !.score = 0, !.at = "score_a"]

DrawHistory(h, th) ==
    [h EXCEPT !.steps = @ + 1, !.ran[th.i] = @ + 1,
              !.drew[th.i] = <<th.liked_index, th.disliked_index>>,
              !.before = IF team = 1 THEN [X |-> user_factors, Y |-> item_factors]
                         ELSE <<>>]

\* Draw with every thread drawing from the first generator.
DrawShared(t) ==
    /\ Alive
    /\ t \in DOMAIN thr
    /\ thr[t].at = "draw"
    /\ t \in DOMAIN rng
    /\ LET g1 == GenNext(rng[0])
           g2 == GenNext(g1)
       IN  /\ rng' = [rng EXCEPT ![0] = g2]
           /\ thr' = [thr EXCEPT ![t] =
                         Drawn(thr[t], DistValue(dist[t], g1), DistValue(dist[t], g2))]
    /\ hist' = DrawHistory(hist, thr'[t])
    /\ UNCHANGED <<object_vars, np_random, item_factors, user_factors, pc, error,
                   call_vars, team, next_i, dev>>

\* Draw with the draws taken from numpy's global generator instead of rng[t].
DrawGlobal(t) ==
    /\ Alive
    /\ t \in DOMAIN thr
    /\ thr[t].at = "draw"
    /\ t \in DOMAIN rng
    /\ LET g1 == GenNext(np_random)
           g2 == GenNext(g1)
       IN  /\ np_random' = NpAdvance(np_random)
           /\ thr' = [thr EXCEPT ![t] =
                         Drawn(thr[t], DistValue(dist[t], g1), DistValue(dist[t], g2))]
    /\ hist' = DrawHistory(hist, thr'[t])
    /\ UNCHANGED <<object_vars, item_factors, user_factors, pc, error,
                   call_vars, rng, team, next_i, dev>>

\* Lines 187-194: two draws from the thread's own generator.
Draw(t) ==
    /\ Alive
    /\ t \in DOMAIN thr
    /\ thr[t].at = "draw"
    /\ t \in DOMAIN rng
    /\ LET g1 == GenNext(rng[t])
           g2 == GenNext(g1)
       IN  /\ rng' = [rng EXCEPT ![t] = g2]
           /\ thr' = [thr EXCEPT ![t] =
                         Drawn(thr[t], DistValue(dist[t], g1), DistValue(dist[t], g2))]
    /\ hist' = DrawHistory(hist, thr'[t])
    /\ UNCHANGED <<object_vars, np_random, item_factors, user_factors, pc, error,
                   call_vars, team, next_i, dev>>

\* A thread's step that changes its private variables alone.
Private(t, th) ==
    /\ thr' = [thr EXCEPT ![t] = th]
    /\ UNCHANGED <<object_vars, np_random, item_factors, user_factors, pc, error,
                   call_vars, rng, team, next_i, dev>>

\* Line 199, the loads of user[j] and liked[j].
ScoreLoad(t) ==
    /\ Alive
    /\ t \in DOMAIN thr
    /\ thr[t].at = "score_a"
    /\ \E wild \in Wild :
          LET th == thr[t]
          IN  Private(t, [th EXCEPT !.a = Load(user_factors, UserRow(th), th.j, wild),
                                    !.b = Load(item_factors, LikedRow(th), th.j, wild),
                                    !.at = "score_b"])
    /\ hist' = hist

\* Scored with duplicates filtered: a step whose liked item is its disliked item
\* ends after line 203, with no update.
ScoredSkipDuplicate(th, score) ==
    LET z == Sigmoid(score)
    IN  [th EXCEPT !.score = 0, !.z = z, !.j = 0, !.a = 0, !.b = 0,
                   !.correct = IF BelowHalf(z) THEN @ + 1 ELSE @,
                   !.at = IF LikedRow(th) = DislikedRow(th) THEN "next"
                          ELSE IF Factors > 0 THEN "user_load" ELSE "liked_bias_load"]

\* Lines 200-203 once the loop of line 198 is over: z, and the count.
Scored(th, score) ==
    LET z == Sigmoid(score)
    IN  [th EXCEPT !.score = 0, !.z = z, !.j = 0, !.a = 0, !.b = 0,
                   !.correct = IF BelowHalf(z) THEN @ + 1 ELSE @,
                   !.at = IF Factors > 0 THEN "user_load" ELSE "liked_bias_load"]

\* Line 199, the load of disliked[j] and the sum; lines 200-203 after the last j.
ScoreAddStep(t) ==
    /\ Alive
    /\ t \in DOMAIN thr
    /\ thr[t].at = "score_b"
    /\ \E wild \in Wild :
          LET th == thr[t]
              score == ScoreAdd(th.score, th.a, th.b,
                                Load(item_factors, DislikedRow(th), th.j, wild))
          IN  IF th.j < Factors
              THEN /\ Private(t, [th EXCEPT !.score = score, !.j = th.j + 1,
                                            !.a = 0, !.b = 0, !.at = "score_a"])
                   /\ hist' = hist
              ELSE /\ Private(t, Scored(th, score))
                   /\ hist' = [hist EXCEPT !.ranked =
                                  IF BelowHalf(Sigmoid(score)) THEN @ + 1 ELSE @]

\* Lines 207-208, the loads: temp, and the operands of the new user[j].
UserLoad(t) ==
    /\ Alive
    /\ t \in DOMAIN thr
    /\ thr[t].at = "user_load"
    /\ \E wild \in Wild :
          LET th == thr[t]
          IN  Private(t, [th EXCEPT !.temp = Load(user_factors, UserRow(th), th.j, wild),
                                    !.a = Load(item_factors, LikedRow(th), th.j, wild),
                                    !.b = Load(item_factors, DislikedRow(th), th.j, wild),
                                    !.at = "user_store"])
    /\ hist' = hist

\* UserStore with the store one column to the right: the last learned column's
\* store lands in the bias column.
UserStoreNextColumn(t) ==
    /\ Alive
    /\ t \in DOMAIN thr
    /\ thr[t].at = "user_store"
    /\ LET th == thr[t]
       IN  /\ user_factors' =
                  Store(user_factors, UserRow(th), th.j + 1,
                        NewUser(th.temp, th.a, th.b, th.z,
                                self.learning_rate, self.regularization))
           /\ thr' = [thr EXCEPT ![t] = [th EXCEPT !.a = 0, !.b = 0, !.at = "liked_load"]]
    /\ UNCHANGED <<object_vars, np_random, item_factors, pc, error, call_vars, rng,
                   team, next_i, dev, hist>>

\* Line 208, the store to user[j].
UserStore(t) ==
    /\ Alive
    /\ t \in DOMAIN thr
    /\ thr[t].at = "user_store"
    /\ LET th == thr[t]
       IN  /\ user_factors' =
                  Store(user_factors, UserRow(th), th.j,
                        NewUser(th.temp, th.a, th.b, th.z,
                                self.learning_rate, self.regularization))
           /\ thr' = [thr EXCEPT ![t] = [th EXCEPT !.a = 0, !.b = 0, !.at = "liked_load"]]
    /\ UNCHANGED <<object_vars, np_random, item_factors, pc, error, call_vars, rng,
                   team, next_i, dev, hist>>

\* Line 209, the load of liked[j].
LikedLoad(t) ==
    /\ Alive
    /\ t \in DOMAIN thr
    /\ thr[t].at = "liked_load"
    /\ \E wild \in Wild :
          LET th == thr[t]
          IN  Private(t, [th EXCEPT !.a = Load(item_factors, LikedRow(th), th.j, wild),
                                    !.at = "liked_store"])
    /\ hist' = hist

\* LikedStore with user[j] read again, after line 208 has overwritten it, in
\* place of temp.
LikedStoreReread(t) ==
    /\ Alive
    /\ t \in DOMAIN thr
    /\ thr[t].at = "liked_store"
    /\ LET th == thr[t]
       IN  /\ item_factors' =
                  Store(item_factors, LikedRow(th), th.j,
                        NewLiked(th.a, Load(user_factors, UserRow(th), th.j, 0), th.z,
                                 self.learning_rate, self.regularization))
           /\ thr' = [thr EXCEPT ![t] = [th EXCEPT !.a = 0, !.at = "disliked_load"]]
    /\ UNCHANGED <<object_vars, np_random, user_factors, pc, error, call_vars, rng,
                   team, next_i, dev, hist>>

\* LikedStore as an atomic add: the increment is added to what liked[j] holds now.
LikedStoreAtomic(t) ==
    /\ Alive
    /\ t \in DOMAIN thr
    /\ thr[t].at = "liked_store"
    /\ LET th == thr[t]
           now == Load(item_factors, LikedRow(th), th.j, 0)
       IN  /\ item_factors' =
                  Store(item_factors, LikedRow(th), th.j,
                        now + (NewLiked(th.a, th.temp, th.z,
                                        self.learning_rate, self.regularization) - th.a))
           /\ thr' = [thr EXCEPT ![t] = [th EXCEPT !.a = 0, !.at = "disliked_load"]]
    /\ UNCHANGED <<object_vars, np_random, user_factors, pc, error, call_vars, rng,
                   team, next_i, dev, hist>>

\* Line 209, the store to liked[j].
LikedStore(t) ==
    /\ Alive
    /\ t \in DOMAIN thr
    /\ thr[t].at = "liked_store"
    /\ LET th == thr[t]
       IN  /\ item_factors' =
                  Store(item_factors, LikedRow(th), th.j,
                        NewLiked(th.a, th.temp, th.z,
                                 self.learning_rate, self.regularization))
           /\ thr' = [thr EXCEPT ![t] = [th EXCEPT !.a = 0, !.at = "disliked_load"]]
    /\ UNCHANGED <<object_vars, np_random, user_factors, pc, error, call_vars, rng,
                   team, next_i, dev, hist>>

\* Line 210, the load of disliked[j].
DislikedLoad(t) ==
    /\ Alive
    /\ t \in DOMAIN thr
    /\ thr[t].at = "disliked_load"
    /\ \E wild \in Wild :
          LET th == thr[t]
          IN  Private(t, [th EXCEPT !.a = Load(item_factors, DislikedRow(th), th.j, wild),
                                    !.at = "disliked_store"])
    /\ hist' = hist

\* Line 210, the store to disliked[j], and the loop of line 206 goes on or ends.
DislikedStore(t) ==
    /\ Alive
    /\ t \in DOMAIN thr
    /\ thr[t].at = "disliked_store"
    /\ LET th == thr[t]
       IN  /\ item_factors' =
                  Store(item_factors, DislikedRow(th), th.j,
                        NewDisliked(th.a, th.temp, th.z,
                                    self.learning_rate, self.regularization))
           /\ thr' = [thr EXCEPT ![t] =
                         [th EXCEPT !.a = 0, !.temp = 0, !.j = th.j + 1,
                                    !.at = IF th.j + 1 < Factors THEN "user_load"
                                           ELSE "liked_bias_load"]]
    /\ UNCHANGED <<object_vars, np_random, user_factors, pc, error, call_vars, rng,
                   team, next_i, dev, hist>>

\* Line 213, the load of liked[factors].
LikedBiasLoad(t) ==
    /\ Alive
    /\ t \in DOMAIN thr
    /\ thr[t].at = "liked_bias_load"
    /\ \E wild \in Wild :
          LET th == thr[t]
          IN  Private(t, [th EXCEPT !.a = Load(item_factors, LikedRow(th), Factors, wild),
                                    !.at = "liked_bias_store"])
    /\ hist' = hist

\* Line 213, the store to liked[factors].
LikedBiasStore(t) ==
    /\ Alive
    /\ t \in DOMAIN thr
    /\ thr[t].at = "liked_bias_store"
    /\ LET th == thr[t]
       IN  /\ item_factors' =
                  Store(item_factors, LikedRow(th), Factors,
                        NewLikedBias(th.a, th.z, self.learning_rate, self.regularization))
           /\ thr' = [thr EXCEPT ![t] = [th EXCEPT !.a = 0, !.at = "disliked_bias_load"]]
    /\ UNCHANGED <<object_vars, np_random, user_factors, pc, error, call_vars, rng,
                   team, next_i, dev, hist>>

\* Line 214, the load of disliked[factors].
DislikedBiasLoad(t) ==
    /\ Alive
    /\ t \in DOMAIN thr
    /\ thr[t].at = "disliked_bias_load"
    /\ \E wild \in Wild :
          LET th == thr[t]
          IN  Private(t, [th EXCEPT !.a = Load(item_factors, DislikedRow(th), Factors, wild),
                                    !.at = "disliked_bias_store"])
    /\ hist' = hist

\* Line 214, the store to disliked[factors]: the sample step is over.
DislikedBiasStore(t) ==
    /\ Alive
    /\ t \in DOMAIN thr
    /\ thr[t].at = "disliked_bias_store"
    /\ LET th == thr[t]
       IN  /\ item_factors' =
                  Store(item_factors, DislikedRow(th), Factors,
                        NewDislikedBias(th.a, th.z, self.learning_rate,
                                        self.regularization))
           /\ thr' = [thr EXCEPT ![t] =
                         [th EXCEPT !.a = 0, !.z = 0, !.j = 0, !.liked_index = 0,
                                    !.disliked_index = 0, !.at = "next"]]
    /\ UNCHANGED <<object_vars, np_random, user_factors, pc, error, call_vars, rng,
                   team, next_i, dev, hist>>

\* Where a thread is between line 194 and the end of a sample step.
InStep == {"score_a", "score_b", "user_load", "user_store", "liked_load",
           "liked_store", "disliked_load", "disliked_store", "liked_bias_load",
           "liked_bias_store", "disliked_bias_load", "disliked_bias_store"}

\* The thread is about to use memory that is not there: a pointer outside the
\* matrices (a row index past the end), or, at line 187, rng[thread_id] and
\* dist[thread_id] of vectors without that entry.  An empty vector has no storage:
\* its entries are at the null pointer.
Astray(t) ==
    \/ thr[t].at \in InStep /\ ~Pointed(thr[t])
    \/ thr[t].at = "draw" /\ t \notin DOMAIN rng

\* An access to memory that is not there kills the process.
Segfault(t) ==
    /\ Alive
    /\ t \in DOMAIN thr
    /\ Astray(t)
    /\ pc' = "crashed"
    /\ UNCHANGED <<object_vars, np_random, item_factors, user_factors, error,
                   call_vars, kernel_vars, dev, hist>>

\* parallel(num_threads=num_threads) with a negative num_threads: the runtime may
\* take it for a huge unsigned team size and give up.
Abort ==
    /\ pc = "epoch_head"
    /\ epoch < self.iterations
    /\ num_threads < 0
    /\ pc' = "crashed"
    /\ UNCHANGED <<object_vars, np_random, item_factors, user_factors, error,
                   call_vars, kernel_vars, dev, hist>>

RECURSIVE SumCorrect(_, _)
\* The sum of the first n threads' copies of correct.
SumCorrect(threads, n) ==
    IF n = 0 THEN 0 ELSE threads[n - 1].correct + SumCorrect(threads, n - 1)

\* Reduction that starts from the count of the call before instead of 0.
ReductionCarried(threads) == correct + SumCorrect(threads, Size(threads))

\* Reduction that keeps the copy of the team's last thread alone.
ReductionLast(threads) ==
    IF Size(threads) = 0 THEN 0 ELSE threads[Size(threads) - 1].correct

\* The reduction of correct (line 203's += in a prange): the variable's value
\* before the region, 0 (line 174), plus every thread's copy.
Reduction(threads) == 0 + SumCorrect(threads, Size(threads))

\* AllDone for a region that ends as soon as one thread has left the loop.
AllDoneOne == \E t \in DOMAIN thr : thr[t].at = "done"

\* Every thread of the team has left the loop and waits at the region's end.
AllDone == \A t \in DOMAIN thr : thr[t].at = "done"

\* The end of the parallel region and line 216: the team is joined, the copies of
\* correct are summed, and bpr_update returns the sum to line 142.
Join ==
    /\ pc = "parallel"
    /\ AllDone
    /\ correct' = Reduction(thr)
    /\ pc' = "log"
    /\ hist' = [hist EXCEPT !.joined = @ + 1]
    /\ UNCHANGED <<object_vars, np_random, item_factors, user_factors, error, calls,
                   Ciu, num_threads, dist, epoch, kernel_vars, dev>>

\* Lines 145-146: 100.0 * correct / len(Ciu.row) is computed for the log, which
\* raises ZeroDivisionError for a matrix without entries; else the loop goes on.
\* The team is gone.
Log ==
    /\ pc = "log"
    /\ IF Samples(Ciu) = 0
       THEN /\ pc' = "raised"
            /\ error' = "ZeroDivisionError"
            /\ epoch' = epoch
       ELSE /\ pc' = "epoch_head"
            /\ error' = error
            /\ epoch' = epoch + 1
    /\ thr' = <<>>
    /\ team' = 0
    /\ next_i' = 0
    /\ hist' = [hist EXCEPT !.steps = 0, !.ranked = 0, !.ran = <<>>, !.owner = <<>>,
                            !.start = <<>>, !.drew = <<>>, !.before = <<>>]
    /\ UNCHANGED <<object_vars, np_random, item_factors, user_factors, calls,
                   Ciu, num_threads, dist, correct, rng, dev>>

-----------------------------------------------------------------------------
(* _fit_gpu(), lines 148-164.  implicit.cuda is not part of these sources:  *)
(* the device runs the epoch's sample steps one after the other, with the   *)
(* draws of a generator seeded with the epoch's seed.                       *)

RECURSIVE SerialScore(_, _, _, _, _, _, _)
\* Lines 197-199 run alone: the score over columns j .. last.
SerialScore(X, Y, u, l, d, j, last) ==
    IF j > last THEN 0
    ELSE LET rest == SerialScore(X, Y, u, l, d, j + 1, last)
         IN  ScoreAdd(0, Load(X, u, j, 0), Load(Y, l, j, 0), Load(Y, d, j, 0)) + rest

RECURSIVE SerialUpdate(_, _, _, _, _, _, _, _, _, _)
\* Lines 206-210 run alone, for columns j .. factors - 1.
SerialUpdate(X, Y, u, l, d, z, lr, reg, j, factors) ==
    IF j >= factors THEN [X |-> X, Y |-> Y]
    ELSE LET temp == Load(X, u, j, 0)
             X1 == Store(X, u, j, NewUser(temp, Load(Y, l, j, 0), Load(Y, d, j, 0),
                                          z, lr, reg))
             Y1 == Store(Y, l, j, NewLiked(Load(Y, l, j, 0), temp, z, lr, reg))
             Y2 == Store(Y1, d, j, NewDisliked(Load(Y1, d, j, 0), temp, z, lr, reg))
         IN  SerialUpdate(X1, Y2, u, l, d, z, lr, reg, j + 1, factors)

\* One whole sample step (lines 190-214) run alone on X and Y.
SerialStep(X, Y, u, l, d, lr, reg, factors) ==
    LET z == Sigmoid(SerialScore(X, Y, u, l, d, 0, factors))
        upd == SerialUpdate(X, Y, u, l, d, z, lr, reg, 0, factors)
        Y1 == Store(upd.Y, l, factors,
                    NewLikedBias(Load(upd.Y, l, factors, 0), z, lr, reg))
        Y2 == Store(Y1, d, factors,
                    NewDislikedBias(Load(Y1, d, factors, 0), z, lr, reg))
    IN  [X |-> upd.X, Y |-> Y2, z |-> z]

RECURSIVE DeviceSteps(_, _, _, _, _, _)
\* cu_bpr_update: n sample steps on the device's matrices.
DeviceSteps(X, Y, g, n, C, cfg) ==
    IF n = 0 THEN [X |-> X, Y |-> Y, correct |-> 0]
    ELSE LET span == [a |-> 0, b |-> Samples(C) - 1]
             g1 == GenNext(g)
             g2 == GenNext(g1)
             liked_index == DistValue(span, g1)
             disliked_index == DistValue(span, g2)
             step == SerialStep(X, Y, At(C.col, liked_index), At(C.row, liked_index),
                                At(C.row, disliked_index), cfg.learning_rate,
                                cfg.regularization, cfg.factors)
             rest == DeviceSteps(step.X, step.Y, g2, n - 1, C, cfg)
         IN  [rest EXCEPT !.correct = @ + (IF BelowHalf(step.z) THEN 1 ELSE 0)]

\* Lines 123-124 and 149-150: no CUDA extension.
GpuUnavailable ==
    /\ pc = "dispatch"
    /\ self.use_gpu
    /\ ~has_cuda
    /\ pc' = "raised"
    /\ error' = "ValueError"
    /\ UNCHANGED <<object_vars, np_random, item_factors, user_factors, call_vars,
                   kernel_vars, dev, hist>>

\* Lines 123-124 and 152-154: the interactions and both matrices go to the device.
GpuUpload ==
    /\ pc = "dispatch"
    /\ self.use_gpu
    /\ has_cuda
    /\ dev' = [dev EXCEPT !.X = user_factors, !.Y = item_factors, !.uploads = @ + 1]
    /\ epoch' = 0
    /\ pc' = "gpu_head"
    /\ UNCHANGED <<object_vars, np_random, item_factors, user_factors, error, calls,
                   Ciu, num_threads, dist, correct, kernel_vars, hist>>

\* Lines 156-161: one epoch on the device, with a seed of its own; line 161
\* divides by len(Ciu_host.row).
GpuEpoch ==
    /\ pc = "gpu_head"
    /\ epoch < self.iterations
    /\ LET seed == NpRandint(np_random)
           run == DeviceSteps(dev.X, dev.Y, GenSeed(seed), Samples(Ciu), Ciu, self)
       IN  /\ dev' = [dev EXCEPT !.X = run.X, !.Y = run.Y, !.epochs = @ + 1,
                                 !.seeds = Append(@, seed)]
           /\ correct' = run.correct
    /\ np_random' = NpAdvance(np_random)
    /\ IF Samples(Ciu) = 0
       THEN /\ pc' = "raised"
            /\ error' = "ZeroDivisionError"
            /\ epoch' = epoch
       ELSE /\ pc' = pc
            /\ error' = error
            /\ epoch' = epoch + 1
    /\ UNCHANGED <<object_vars, item_factors, user_factors, calls, Ciu,
                   num_threads, dist, kernel_vars, hist>>

\* GpuDownload without the wait for the loop of line 156 to end.
GpuDownloadEarly ==
    /\ pc = "gpu_head"
    /\ user_factors' = dev.X
    /\ item_factors' = dev.Y
    /\ dev' = [dev EXCEPT !.downloads = @ + 1]
    /\ pc' = "returned"
    /\ UNCHANGED <<object_vars, np_random, error, call_vars, kernel_vars, hist>>

\* Lines 163-164: the matrices come back, and fit returns.
GpuDownload ==
    /\ pc = "gpu_head"
    /\ epoch >= self.iterations
    /\ user_factors' = dev.X
    /\ item_factors' = dev.Y
    /\ dev' = [dev EXCEPT !.downloads = @ + 1]
    /\ pc' = "returned"
    /\ UNCHANGED <<object_vars, np_random, error, call_vars, kernel_vars, hist>>

-----------------------------------------------------------------------------
(* The specification. *)

\* A step of thread t within the loop of line 186.
Step(t) ==
    \/ NextPosition(t)
    \/ Draw(t)
    \/ ScoreLoad(t)
    \/ ScoreAddStep(t)
    \/ UserLoad(t)
    \/ UserStore(t)
    \/ LikedLoad(t)
    \/ LikedStore(t)
    \/ DislikedLoad(t)
    \/ DislikedStore(t)
    \/ LikedBiasLoad(t)
    \/ LikedBiasStore(t)
    \/ DislikedBiasLoad(t)
    \/ DislikedBiasStore(t)

Worker(t) == Step(t) \/ Segfault(t)

Next ==
    \/ \E C \in Datasets : FitCall(C)
    \/ InitItemFactors
    \/ InitUserFactors
    \/ ChooseThreads
    \/ InitRng
    \/ EpochHead
    \/ FitReturn
    \/ \E t \in 0 .. CpuCount - 1 : Worker(t)
    \/ Abort
    \/ Join
    \/ Log
    \/ GpuUnavailable
    \/ GpuUpload
    \/ GpuEpoch
    \/ GpuDownload

Spec == Init /\ [][Next]_vars

-----------------------------------------------------------------------------
(* One bpr_update call run twice from the same state, with one thread.    *)

\* What a run of bpr_update starts from: the matrices and the generators (the
\* interactions and the hyperparameters are the call's, and stay).
Mark ==
    /\ pc = "epoch_head"
    /\ epoch < self.iterations
    /\ trial.run = 0
    /\ trial' = [run |-> 1,
                 start |-> [user_factors |-> user_factors, item_factors |-> item_factors,
                            rng |-> rng, hist |-> hist, epoch |-> epoch],
                 first |-> <<>>]
    /\ UNCHANGED <<self, has_cuda, np_random, item_factors, user_factors, pc, error,
                   call_vars, kernel_vars, dev, hist>>

\* The first run is over: what it left is kept, and the second run starts from
\* what the first started from.
Rerun ==
    /\ pc = "log"
    /\ trial.run = 1
    /\ trial' = [trial EXCEPT !.run = 2,
                              !.first = [user_factors |-> user_factors,
                                         item_factors |-> item_factors,
                                         rng |-> rng, correct |-> correct]]
    /\ user_factors' = trial.start.user_factors
    /\ item_factors' = trial.start.item_factors
    /\ rng' = trial.start.rng
    /\ hist' = trial.start.hist
    /\ thr' = <<>>
    /\ team' = 0
    /\ next_i' = 0
    /\ pc' = "epoch_head"
    /\ UNCHANGED <<self, has_cuda, np_random, error, call_vars, dev>>

InitRepeat ==
    /\ Init
    /\ ~self.use_gpu
    /\ self.num_threads = 1

NextRepeat ==
    \/ calls = 0 /\ \E C \in Datasets : FitCall(C)
    \/ InitItemFactors
    \/ InitUserFactors
    \/ ChooseThreads
    \/ InitRng
    \/ Mark
    \/ EpochHead
    \/ Step(0)
    \/ Join
    \/ Rerun
    \/ Log
    \/ FitReturn

SpecRepeat == InitRepeat /\ [][NextRepeat]_vars

-----------------------------------------------------------------------------
(* The properties. *)

\* The call is on the CPU path and past the initialisation of both matrices.
Training == ~self.use_gpu /\ pc \in {"rng_init", "epoch_head", "parallel", "log",
                                      "returned", "crashed"}

Observed(ids, r) == \E p \in 1 .. Len(ids) : ids[p] = r

ZeroRow(M, r) == \A c \in DOMAIN M[r] : M[r][c] = 0

\* C2: during an object's first call, once a matrix is there, every user without
\* interactions has a row of user_factors that is zero in all factors + 1 columns,
\* and every item without interactions a row of item_factors that is.
C2_ZeroRowsStayZero ==
    calls = 1 =>
        /\ item_factors # None =>
              \A i \in DOMAIN item_factors :
                  ~Observed(Ciu.row, i) => ZeroRow(item_factors, i)
        /\ user_factors # None =>
              \A u \in DOMAIN user_factors :
                  ~Observed(Ciu.col, u) => ZeroRow(user_factors, u)

\* The second of the two runs has returned.
Repeated == trial.run = 2 /\ pc = "log" /\ epoch = trial.start.epoch

\* C3: two runs of bpr_update with one thread that start from the same
\* interactions, matrices, learning rate, regularization and generator state end
\* with the same user_factors, the same item_factors, the same count and the same
\* generator state.
C3_RerunIsTheSame ==
    Repeated =>
        /\ user_factors = trial.first.user_factors
        /\ item_factors = trial.first.item_factors
        /\ correct = trial.first.correct
        /\ rng = trial.first.rng

\* C3's case: the second run is over, and each run changed both matrices.
C3_Witness ==
    /\ Repeated
    /\ self.factors >= 1
    /\ Samples(Ciu) >= 2
    /\ user_factors # trial.start.user_factors
    /\ item_factors # trial.start.item_factors
    /\ user_factors = trial.first.user_factors
    /\ item_factors = trial.first.item_factors

\* C4: the count bpr_update returns for an epoch is at least 0 and at most the
\* number of interactions.
C4_CorrectInRange ==
    pc = "log" => (0 <= correct /\ correct <= Samples(Ciu))

\* C4's case: the second epoch of a call returned the largest count there is, the
\* number of interactions.
C4_Witness ==
    /\ pc = "log"
    /\ epoch = 1
    /\ Samples(Ciu) = 2
    /\ correct = Samples(Ciu)

\* C5: the count bpr_update returns is the number of the epoch's sample steps whose
\* z, computed from what the step read before its own update, was below 0.5; and
\* while the team runs, the threads' copies add up to the number of such steps so
\* far.
C5_CorrectIsExact ==
    /\ pc = "log" => correct = hist.ranked
    /\ pc = "parallel" => SumCorrect(thr, Size(thr)) = hist.ranked

\* C5's case: two threads counted one step each, and 2 was returned.
C5_Witness ==
    /\ pc = "log"
    /\ team = 2
    /\ \A t \in DOMAIN thr : thr[t].correct = 1
    /\ correct = 2

\* C6: with use_gpu set and no CUDA extension, a call of fit ends with ValueError
\* and in no other way, and no epoch and no sample step of bpr_update is run.
C6_NoBackendIsValueError ==
    (self.use_gpu /\ ~has_cuda) =>
        /\ hist.updates = 0
        /\ hist.steps = 0
        /\ thr = <<>>
        /\ pc \notin {"rng_init", "epoch_head", "parallel", "log", "returned",
                      "crashed"}
        /\ pc = "raised" => error = "ValueError"

\* The configuration is one the error rules name: factors or iterations not
\* positive, a negative num_threads, or use_gpu without a CUDA extension.
BadConfiguration ==
    \/ self.factors <= 0
    \/ self.iterations <= 0
    \/ self.num_threads < 0
    \/ self.use_gpu /\ ~has_cuda

\* C7: with such a configuration a call of fit ends with an error before any
\* work: no matrix is created, no epoch is started, and the call does not return.
C7_BadConfigurationDoesNothing ==
    BadConfiguration =>
        /\ item_factors = None
        /\ user_factors = None
        /\ hist.updates = 0
        /\ pc \notin {"returned", "crashed"}

\* C8: on the CPU path with num_threads not negative, the count of threads is at
\* least 1 before the generators are made, and the number of cores when 0 was
\* asked for; there is one generator and one sampler per thread of the team; and
\* every thread's id is an index of both vectors.
C8_PoolFitsTeam ==
    (~self.use_gpu /\ self.num_threads >= 0) =>
        /\ pc \in {"rng_init", "epoch_head", "parallel", "log"} =>
              /\ num_threads >= 1
              /\ self.num_threads = 0 => num_threads = CpuCount
        /\ pc \in {"epoch_head", "parallel", "log"} =>
              /\ Size(rng) = num_threads
              /\ Size(dist) = num_threads
        /\ pc = "parallel" => team = Size(rng)
        /\ \A t \in DOMAIN thr : t \in DOMAIN rng /\ t \in DOMAIN dist

\* C8's case: 0 was asked for, and the thread with the team's highest id has drawn
\* from its generator.
C8_Witness ==
    /\ ~self.use_gpu
    /\ self.num_threads = 0
    /\ pc = "parallel"
    /\ team = CpuCount
    /\ Size(rng) = CpuCount
    /\ thr[CpuCount - 1].at = "score_a"

\* C9: when bpr_update has returned an epoch's count, every thread of the epoch's
\* team has left the loop with all its stores done and every position of the
\* epoch has been run; and the threads there are belong to the current epoch, so
\* that none of the next epoch draws before.
C9_EpochBarrier ==
    /\ pc = "log" =>
          /\ \A t \in DOMAIN thr : thr[t].at = "done"
          /\ hist.steps = Samples(Ciu)
    /\ \A t \in DOMAIN thr : thr[t].born = epoch
    /\ pc \in {"epoch_head", "returned", "raised"} => thr = <<>>

\* C9's case: the second epoch of a team of two has returned, and each thread ran
\* one of its two positions.
C9_Witness ==
    /\ pc = "log"
    /\ epoch = 1
    /\ team = 2
    /\ hist.steps = 2
    /\ hist.owner[0] # hist.owner[1]
    /\ \A t \in DOMAIN thr : thr[t].at = "done"

\* C10: a call of fit on the CPU path with at least one thread that has started
\* an epoch neither dies nor raises, every epoch that is over has run every
\* position exactly once, and fit returns after exactly iterations epochs.
C10_TrainingCompletes ==
    (~self.use_gpu /\ self.num_threads >= 0 /\ hist.updates >= 1) =>
        /\ pc \notin {"crashed", "raised"}
        /\ pc = "log" =>
              /\ hist.steps = Samples(Ciu)
              /\ \A p \in DOMAIN hist.ran : hist.ran[p] = 1
        /\ pc = "returned" => hist.joined = self.iterations

\* The store thread th is about to make: the matrix (TRUE: user_factors), the row,
\* the column, and the value, computed from what th loaded before.
Pending(th) ==
    LET lr == self.learning_rate
        reg == self.regularization
    IN  CASE th.at = "user_store" ->
                 [user |-> TRUE, row |-> UserRow(th), col |-> th.j,
                  value |-> NewUser(th.temp, th.a, th.b, th.z, lr, reg)]
          [] th.at = "liked_store" ->
                 [user |-> FALSE, row |-> LikedRow(th), col |-> th.j,
                  value |-> NewLiked(th.a, th.temp, th.z, lr, reg)]
          [] th.at = "disliked_store" ->
                 [user |-> FALSE, row |-> DislikedRow(th), col |-> th.j,
                  value |-> NewDisliked(th.a, th.temp, th.z, lr, reg)]
          [] th.at = "liked_bias_store" ->
                 [user |-> FALSE, row |-> LikedRow(th), col |-> Factors,
                  value |-> NewLikedBias(th.a, th.z, lr, reg)]
          [] th.at = "disliked_bias_store" ->
                 [user |-> FALSE, row |-> DislikedRow(th), col |-> Factors,
                  value |-> NewDislikedBias(th.a, th.z, lr, reg)]

StoreSteps == {"user_store", "liked_store", "disliked_store", "liked_bias_store",
               "disliked_bias_store"}

\* The functions from 0 .. n-1 onto itself: the orders n sample steps can run in.
Orders(n) == {f \in [0 .. n - 1 -> 0 .. n - 1] :
                 \A a, b \in 0 .. n - 1 : a # b => f[a] # f[b]}

RECURSIVE SerialRun(_, _, _, _)
\* The matrices after the sample steps of positions f[k], f[k+1], ... have run one
\* after the other on M, each whole, with the draws the epoch made.
SerialRun(M, f, k, n) ==
    IF k >= n THEN M
    ELSE LET d == hist.drew[f[k]]
             step == SerialStep(M.X, M.Y, At(Ciu.col, d[1]), At(Ciu.row, d[1]),
                                At(Ciu.row, d[2]), self.learning_rate,
                                self.regularization, Factors)
         IN  SerialRun([X |-> step.X, Y |-> step.Y], f, k + 1, n)

\* What the epoch's sample steps leave when they run one after the other, in
\* every order.
SerialOutcomes ==
    {SerialRun(hist.start, f, 0, Samples(Ciu)) : f \in Orders(Samples(Ciu))}

\* C11: nothing keeps a thread's store from overwriting what another thread has
\* stored since the thread loaded: whenever a thread makes a store to a row of the
\* matrices, the entry becomes the value computed from the thread's earlier loads,
\* whatever the entry holds by then.
C11_StoresAreBlind ==
    [][\A t \in DOMAIN thr :
          (/\ thr[t].at \in StoreSteps
           /\ t \in DOMAIN thr'
           /\ thr'[t].at # thr[t].at
           /\ Pointed(thr[t]))
          => LET w == Pending(thr[t])
             IN  IF w.user THEN user_factors'[w.row][w.col] = w.value
                 ELSE item_factors'[w.row][w.col] = w.value]_vars

\* C11's case: an epoch of two threads, one sample step each, on an object's first
\* call is over, and the matrices are those of neither order of the two steps run
\* one after the other.
C11_Witness ==
    /\ pc = "log"
    /\ calls = 1
    /\ team = 2
    /\ Samples(Ciu) = 2
    /\ hist.owner[0] # hist.owner[1]
    /\ [X |-> user_factors, Y |-> item_factors] \notin SerialOutcomes

\* The one thread of a team of one has just ended a sample step.
StepEnded ==
    /\ Alive
    /\ team = 1
    /\ 0 \in DOMAIN thr
    /\ thr[0].at = "next"
    /\ thr[0].i >= 0
    /\ hist.before # <<>>

\* The user, the liked item and the disliked item of that step.
EndedUser == At(Ciu.col, hist.drew[thr[0].i][1])
EndedLiked == At(Ciu.row, hist.drew[thr[0].i][1])
EndedDisliked == At(Ciu.row, hist.drew[thr[0].i][2])

\* All three are rows of the matrices the step started from.
EndedInRows ==
    /\ InRows(hist.before.X, EndedUser)
    /\ InRows(hist.before.Y, EndedLiked)
    /\ InRows(hist.before.Y, EndedDisliked)

RECURSIVE RefScore(_, _, _, _, _, _)
\* The sum over columns 0 .. j of X[u][c] * (Y[l][c] - Y[d][c]).
RefScore(X, Y, u, l, d, j) ==
    IF j < 0 THEN 0
    ELSE RefScore(X, Y, u, l, d, j - 1) + Mul(X[u][j], Y[l][j] - Y[d][j])

\* The reference formulas of a sample step of user u, liked item l and disliked
\* item d with factors learned columns, all of them evaluated on X and Y as they
\* are before the step.
RefZ(X, Y, u, l, d, factors) == Sigmoid(RefScore(X, Y, u, l, d, factors))

RefUsers(X, Y, u, l, d, lr, reg, factors) ==
    LET z == RefZ(X, Y, u, l, d, factors)
    IN  [r \in DOMAIN X |->
           [c \in DOMAIN X[r] |->
              IF r = u /\ c < factors
              THEN X[u][c] + Mul(lr, Mul(z, Y[l][c] - Y[d][c]) - Mul(reg, X[u][c]))
              ELSE X[r][c]]]

RefItems(X, Y, u, l, d, lr, reg, factors) ==
    LET z == RefZ(X, Y, u, l, d, factors)
    IN  [r \in DOMAIN Y |->
           [c \in DOMAIN Y[r] |->
              IF r = l /\ c < factors
              THEN Y[l][c] + Mul(lr, Mul(z, X[u][c]) - Mul(reg, Y[l][c]))
              ELSE IF r = l
              THEN Y[l][c] + Mul(lr, z - Mul(reg, Y[l][c]))
              ELSE IF r = d /\ c < factors
              THEN Y[d][c] + Mul(lr, Mul(0 - z, X[u][c]) - Mul(reg, Y[d][c]))
              ELSE IF r = d
              THEN Y[d][c] + Mul(lr, (0 - z) - Mul(reg, Y[d][c]))
              ELSE Y[r][c]]]

\* C12: a sample step run by a team of one, with the liked item not the disliked
\* one, leaves the matrices the reference formulas give when all of them are
\* evaluated on the matrices the step started from: one z, the same temp for both
\* item rows, the values of the item rows from before the step for the user row,
\* and the two bias entries.
C12_StepIsReference ==
    (StepEnded /\ EndedInRows /\ EndedLiked # EndedDisliked) =>
        /\ user_factors =
              RefUsers(hist.before.X, hist.before.Y, EndedUser, EndedLiked,
                       EndedDisliked, self.learning_rate, self.regularization, Factors)
        /\ item_factors =
              RefItems(hist.before.X, hist.before.Y, EndedUser, EndedLiked,
                       EndedDisliked, self.learning_rate, self.regularization, Factors)

\* C12's case: such a step is over, and it changed a learned entry of the user's
\* row and learned entries of both item rows.
C12_Witness ==
    /\ StepEnded
    /\ EndedInRows
    /\ EndedLiked # EndedDisliked
    /\ Factors >= 1
    /\ user_factors[EndedUser][0] # hist.before.X[EndedUser][0]
    /\ item_factors[EndedLiked][0] # hist.before.Y[EndedLiked][0]
    /\ item_factors[EndedDisliked][0] # hist.before.Y[EndedDisliked][0]

\* C13: a sample step whose liked item is its disliked item, run by a team of one,
\* leaves every entry of both matrices as it was before the step, whatever the
\* learning rate and the regularization.
C13_DuplicateChangesNothing ==
    (StepEnded /\ EndedInRows /\ EndedLiked = EndedDisliked) =>
        /\ user_factors = hist.before.X
        /\ item_factors = hist.before.Y

\* What a step whose liked and disliked item are the one item l does to a learned
\* entry v of l's row, temp being the user's entry: line 209, then line 210 on
\* what line 209 left, with z = 1/2.
TwiceLearned(v, temp, lr, reg) ==
    LET v1 == v + Mul(lr, Mul(HalfScale, temp) - Mul(reg, v))
    IN  v1 + Mul(lr, Mul(0 - HalfScale, temp) - Mul(reg, v1))

\* The same for the bias entry: line 213, then line 214.
TwiceBias(v, lr, reg) ==
    LET v1 == v + Mul(lr, HalfScale - Mul(reg, v))
    IN  v1 + Mul(lr, (0 - HalfScale) - Mul(reg, v1))

\* C13, as the code has it: a sample step whose liked item is its disliked item,
\* run by a team of one, is not filtered.  It moves each learned entry of the
\* user's row by the regularization term alone (so not at all when regularization
\* is 0), applies to each entry of the item's row the liked update and then the
\* disliked update, whose z terms have opposite signs and whose regularization
\* terms add up, and leaves all other entries as they were.
C13_DuplicateRegularizes ==
    (StepEnded /\ EndedInRows /\ EndedLiked = EndedDisliked) =>
        LET X == hist.before.X
            Y == hist.before.Y
            lr == self.learning_rate
            reg == self.regularization
        IN  /\ user_factors =
                  [r \in DOMAIN X |->
                     [c \in DOMAIN X[r] |->
                        IF r = EndedUser /\ c < Factors
                        THEN X[r][c] + Mul(lr, 0 - Mul(reg, X[r][c]))
                        ELSE X[r][c]]]
            /\ item_factors =
                  [r \in DOMAIN Y |->
                     [c \in DOMAIN Y[r] |->
                        IF r = EndedLiked /\ c < Factors
                        THEN TwiceLearned(Y[r][c], X[EndedUser][c], lr, reg)
                        ELSE IF r = EndedLiked THEN TwiceBias(Y[r][c], lr, reg)
                        ELSE Y[r][c]]]
            /\ reg = 0 => user_factors = X

\* C13's case: such a step is over, with a regularization that is not 0, and it
\* changed a learned entry of the user's row and one of the item's row.
C13_Witness ==
    /\ StepEnded
    /\ EndedInRows
    /\ EndedLiked = EndedDisliked
    /\ self.regularization > 0
    /\ Factors >= 1
    /\ user_factors[EndedUser][0] # hist.before.X[EndedUser][0]
    /\ item_factors[EndedLiked][0] # hist.before.Y[EndedLiked][0]

\* Some thread is within a sample step whose user is r and which is yet to store
\* to a learned column of the user's row.
StepOfUser(r) ==
    \E t \in DOMAIN thr : thr[t].at \in InStep /\ UserRow(thr[t]) = r

\* Some thread is within a sample step whose liked or disliked item is r.
StepOfItem(r) ==
    \E t \in DOMAIN thr :
        thr[t].at \in InStep /\ (LikedRow(thr[t]) = r \/ DislikedRow(thr[t]) = r)

\* What one step may change while fit is in its epoch loop.
Framed ==
    pc \in {"epoch_head", "parallel", "log"} =>
        /\ DOMAIN user_factors' = DOMAIN user_factors
        /\ DOMAIN item_factors' = DOMAIN item_factors
        /\ Ciu' = Ciu
        /\ \A r \in DOMAIN user_factors :
              /\ DOMAIN user_factors'[r] = DOMAIN user_factors[r]
              /\ \A c \in DOMAIN user_factors[r] :
                    user_factors'[r][c] # user_factors[r][c] =>
                        /\ c < Factors
                        /\ StepOfUser(r)
                        /\ Observed(Ciu.col, r)
        /\ \A r \in DOMAIN item_factors :
              /\ DOMAIN item_factors'[r] = DOMAIN item_factors[r]
              /\ \A c \in DOMAIN item_factors[r] :
                    item_factors'[r][c] # item_factors[r][c] =>
                        /\ StepOfItem(r)
                        /\ Observed(Ciu.row, r)

\* C14: while fit is in its epoch loop, a step changes an entry of user_factors
\* only in a learned column (below factors) of the row of the user of a sample step
\* that is under way, and an entry of item_factors only in the row of such a step's
\* liked or disliked item; that user and that item are observed in the
\* interactions; and no step changes the number of rows or of columns of either
\* matrix, or the interactions.
C14_StepFrame == [][Framed]_vars

\* Row r of M is as it was when the current bpr_update call started.
AsStarted(M, M0, r) == M[r] = M0[r]

\* C14's case: an epoch of two threads has ended on matrices with a user and an
\* item without interactions; it changed both matrices and left the rows of that
\* user and of that item as they were.
C14_Witness ==
    /\ pc = "log"
    /\ team = 2
    /\ hist.steps = 2
    /\ user_factors # hist.start.X
    /\ item_factors # hist.start.Y
    /\ \E r \in DOMAIN user_factors :
          ~Observed(Ciu.col, r) /\ AsStarted(user_factors, hist.start.X, r)
    /\ \E r \in DOMAIN item_factors :
          ~Observed(Ciu.row, r) /\ AsStarted(item_factors, hist.start.Y, r)

\* User u and item i are one of the interactions.
Interacted(u, i) ==
    \E p \in 1 .. Len(Ciu.row) : Ciu.col[p] = u /\ Ciu.row[p] = i

\* C15, of a thread within a sample step: both positions drawn are positions of
\* the interactions, and the user and the liked item whose rows the step uses are
\* one interaction.
SampleIsObserved ==
    \A t \in DOMAIN thr :
        thr[t].at \in InStep =>
            /\ thr[t].liked_index \in 0 .. Samples(Ciu) - 1
            /\ thr[t].disliked_index \in 0 .. Samples(Ciu) - 1
            /\ Interacted(UserRow(thr[t]), LikedRow(thr[t]))
            /\ hist.drew[thr[t].i] = <<thr[t].liked_index, thr[t].disliked_index>>

\* C15, of the draw itself: the two positions are the next two values of the
\* thread's generator, mapped into the sampler's range; the loop position the
\* thread was given has no part in them.
DrawIsFromGenerator ==
    \A t \in DOMAIN thr :
        (t \in DOMAIN thr' /\ thr[t].at = "draw" /\ thr'[t].at = "score_a") =>
            /\ thr'[t].liked_index = DistValue(dist[t], GenNext(rng[t]))
            /\ thr'[t].disliked_index = DistValue(dist[t], GenNext(GenNext(rng[t])))
            /\ thr'[t].i = thr[t].i

\* C15: in every sample step both positions drawn lie in 0 .. N-1, the user and
\* the liked item are those of the one position drawn first and so are an
\* interaction, and the positions come from the generator alone, not from the
\* loop position; nothing compares the disliked item with the user's items.
C15_SampleSelection == []SampleIsObserved /\ [][DrawIsFromGenerator]_vars

\* C15's case: a thread is in a sample step at loop position 0 that drew position
\* 1 first, and whose disliked item is another item the step's user has
\* interacted with.
C15_Witness ==
    \E t \in DOMAIN thr :
        /\ thr[t].at \in InStep
        /\ thr[t].i = 0
        /\ thr[t].liked_index = 1
        /\ LikedRow(thr[t]) # DislikedRow(thr[t])
        /\ Interacted(UserRow(thr[t]), DislikedRow(thr[t]))

\* Thread t makes its draws in this step.
Draws(t) ==
    /\ t \in DOMAIN thr
    /\ t \in DOMAIN thr'
    /\ thr[t].at = "draw"
    /\ thr'[t].at = "score_a"

\* A step that changes rng is either lines 134-138, which make the generators
\* of a call, or the draws of one thread t, which advance generator t by two
\* values and leave the others; and a thread that draws advances its generator.
GeneratorsArePrivate ==
    /\ rng' # rng =>
          \/ pc = "rng_init"
          \/ \E t \in DOMAIN rng :
                /\ Draws(t)
                /\ rng' = [rng EXCEPT ![t] = GenNext(GenNext(rng[t]))]
    /\ \A t \in DOMAIN thr : Draws(t) => (t \in DOMAIN rng /\ rng'[t] # rng[t])

\* C16: thread w draws from generator w and advances generator w alone, no
\* generator is advanced by two threads, and the generators are made once per
\* call: between the epochs of a call they are left as they are.
C16_GeneratorPerThread == [][GeneratorsArePrivate]_vars

\* C16's case: in the second epoch of a call, the second thread of a team of two
\* has drawn, after both threads drew in the first epoch.
C16_Witness ==
    /\ pc = "parallel"
    /\ epoch = 1
    /\ team = 2
    /\ thr[1].at = "score_a"
    /\ \A t \in DOMAIN rng : rng[t] \notin {GenSeed(s) : s \in 0 .. MaxSeed}

\* What the device path has done is a start of: one upload, iterations epochs,
\* one download; all of it once fit has returned; and bpr_update is never called.
DeviceInOrder ==
    (self.use_gpu /\ has_cuda) =>
        /\ hist.updates = 0
        /\ hist.steps = 0
        /\ thr = <<>>
        /\ pc \notin {"rng_init", "epoch_head", "parallel", "log", "crashed"}
        /\ dev.uploads <= 1
        /\ dev.downloads <= 1
        /\ dev.epochs <= self.iterations
        /\ Len(dev.seeds) = dev.epochs
        /\ dev.epochs >= 1 => dev.uploads = 1
        /\ dev.downloads = 1 => (dev.uploads = 1 /\ dev.epochs = self.iterations)
        /\ pc = "gpu_head" => (dev.uploads = 1 /\ dev.downloads = 0 /\ dev.epochs = epoch)
        /\ pc = "returned" =>
              /\ dev.uploads = 1
              /\ dev.epochs = self.iterations
              /\ dev.downloads = 1
              /\ user_factors = dev.X
              /\ item_factors = dev.Y

\* Between the upload and the download no step changes the host's matrices, and
\* every device epoch is given a number newly drawn from numpy's generator.
DeviceStep ==
    (self.use_gpu /\ has_cuda) =>
        /\ (pc = "gpu_head" /\ pc' # "returned") =>
              UNCHANGED <<user_factors, item_factors>>
        /\ pc = "dispatch" => UNCHANGED <<user_factors, item_factors>>
        /\ dev'.epochs > dev.epochs =>
              /\ pc = "gpu_head"
              /\ dev'.epochs = dev.epochs + 1
              /\ dev'.seeds = Append(dev.seeds, NpRandint(np_random))
              /\ np_random' = NpAdvance(np_random)

\* C17: on the device path the events are, in this order, one upload of the
\* interactions and both matrices, iterations device epochs each with a seed of
\* its own drawn for it, and one download of both matrices after the last epoch,
\* with which fit returns; the host's matrices are untouched from the upload to
\* the download; and bpr_update is never called.
C17_DeviceOrder == []DeviceInOrder /\ [][DeviceStep]_vars

\* C17's case: an object's first call has returned from the device path after
\* two epochs over two interactions, the epochs had different seeds, and the
\* host's matrices are the ones the download brought.
C17_Witness ==
    /\ self.use_gpu
    /\ has_cuda
    /\ pc = "returned"
    /\ calls = 1
    /\ self.iterations = 2
    /\ self.learning_rate > 0
    /\ Samples(Ciu) = 2
    /\ dev.uploads = 1
    /\ dev.epochs = 2
    /\ dev.downloads = 1
    /\ Len(dev.seeds) = 2
    /\ dev.seeds[1] # dev.seeds[2]
    /\ user_factors = dev.X
    /\ item_factors = dev.Y

\* The call is on an object that holds matrices from a call before, and the new
\* input's shape is not the row counts of these matrices.
Mismatched ==
    /\ calls >= 2
    /\ pc # "ready"
    /\ \/ Cardinality(DOMAIN item_factors) # Ciu.items
       \/ Cardinality(DOMAIN user_factors) # Ciu.users

\* C18: a call whose input does not have the shape of the matrices the object
\* holds from a call before runs no sample step and does not return, and no
\* thread in a sample step points at a row past the end of a matrix.
C18_MismatchIsFatal ==
    /\ Mismatched => (hist.steps = 0 /\ hist.updates = 0 /\ pc \notin {"returned", "crashed"})
    /\ \A t \in DOMAIN thr : thr[t].at \in InStep => Pointed(thr[t])

\* The thread is in a sample step whose liked and disliked item are the same.
DuplicateStep(th) == th.at \in InStep /\ LikedRow(th) = DislikedRow(th)

\* The draw of loop position p gave the same item twice.
DuplicateDraw(p) ==
    /\ hist.drew[p] # <<>>
    /\ At(Ciu.row, hist.drew[p][1]) = At(Ciu.row, hist.drew[p][2])

\* The item of the draw of loop position p is a row of item_factors.
DrawInRows(p) ==
    /\ hist.drew[p] # <<>>
    /\ InRows(item_factors, At(Ciu.row, hist.drew[p][1]))

\* A duplicate step's sum is 0 after every j, and its z is .5.
DuplicateScoresHalf(th) ==
    /\ th.score = 0
    /\ th.at \notin {"score_a", "score_b"} => (th.z = HalfScale /\ ~BelowHalf(th.z))

\* C19, for a team of any size: a sample step in which liked == disliked has
\* score exactly 0 and z exactly
\* 0.5 and is never counted; if every draw of an epoch is such a duplicate the
\* returned count is 0.
C19_DuplicateIsNeverCounted ==
    /\ \A t \in DOMAIN thr : DuplicateStep(thr[t]) => DuplicateScoresHalf(thr[t])
    /\ pc \in {"parallel", "log"} =>
          hist.ranked <= Cardinality({p \in DOMAIN hist.drew :
                                        hist.drew[p] # <<>> /\ ~DuplicateDraw(p)})
    /\ (pc = "log" /\ \A p \in DOMAIN hist.drew : DuplicateDraw(p)) => correct = 0

\* C19: in a team of one thread, a sample step in which liked == disliked is a
\* row of item_factors has score exactly 0 and z exactly 0.5 and is not counted;
\* if every draw of such an epoch is such a duplicate the returned count is 0.
C19_LoneDuplicateIsNeverCounted ==
    team = 1 =>
        /\ \A t \in DOMAIN thr :
              (DuplicateStep(thr[t]) /\ Pointed(thr[t])) => DuplicateScoresHalf(thr[t])
        /\ pc \in {"parallel", "log"} =>
              hist.ranked <= Cardinality({p \in DOMAIN hist.drew :
                                 hist.drew[p] # <<>> /\ ~(DuplicateDraw(p) /\ DrawInRows(p))})
        /\ (pc = "log" /\ \A p \in DOMAIN hist.drew : DuplicateDraw(p) /\ DrawInRows(p))
              => correct = 0

\* C19's case: the one thread's two draws of an epoch over two interactions
\* were both duplicates, with learned entries in the sum, and the epoch is over.
C19_Witness ==
    /\ pc = "log"
    /\ team = 1
    /\ self.factors = 1
    /\ Samples(Ciu) = 2
    /\ \A p \in DOMAIN hist.drew : DuplicateDraw(p) /\ DrawInRows(p)
    /\ correct = 0

=============================================================================
